---- MODULE Spec2Model ----
(***************************************************************************)
(* TaskFlow server: the Express routes of server/routes.ts over the        *)
(* exported MemStorage instance of server/storage.ts, with the session     *)
(* middleware (express-session over memorystore) in front of them.         *)
(*                                                                         *)
(* One action per route handler.  A handler runs from request to response  *)
(* in one step; the clock (Date.now()) advances between steps.             *)
(***************************************************************************)
EXTENDS Integers, Sequences, FiniteSets, TLC

VARIABLES
    users,          \* MemStorage.users : Map<number, User>, in insertion order
    nextUserId,     \* MemStorage.nextUserId
    tasks,          \* MemStorage.tasks : Map<number, Task>, in insertion order
    nextTaskId,     \* MemStorage.nextTaskId
    sessionStore,   \* memorystore: sid -> [sess, expires]
    nextSid,        \* the next fresh session id the middleware generates
    cookie,         \* per client: the connect.sid cookie it holds (NoSid: none)
    now,            \* Date.now(), in milliseconds
    resp,           \* the response to the last request
    inflight,       \* signup requests suspended in createUser, on bcrypt.hash
    suspended,      \* MemStorage calls suspended at an await, in the order they resume
    db              \* the tasks table DatabaseStorage works on, and its id sequence

vars == <<users, nextUserId, tasks, nextTaskId, sessionStore, nextSid, cookie, now, resp, inflight,
          suspended, db>>

(***************************************************************************)
(* Bounds of the model.                                                    *)
(***************************************************************************)
MaxTasks == 2       \* createTask calls explored
MaxClock == 1       \* clock ticks explored
MaxSessions == 1    \* session ids generated, per client
MaxWaits == 3       \* long waits between requests explored

(***************************************************************************)
(* JavaScript values.                                                      *)
(***************************************************************************)
Null == "<null>"                   \* null in a string field
NullObject == [null |-> TRUE]      \* null where an object is expected
Undefined == [undefined |-> TRUE]
NoBody == [empty |-> TRUE]         \* a response without a body

\* {...a, ...b}
Spread(a, b) == [k \in DOMAIN a \cup DOMAIN b |-> IF k \in DOMAIN b THEN b[k] ELSE a[k]]

\* a string used as a condition: "" and null are falsy
TruthyStr(s) == s # Null /\ s # ""

\* body.k || dflt, for a string field that may be absent
StrOr(body, k, dflt) == IF k \in DOMAIN body /\ TruthyStr(body[k]) THEN body[k] ELSE dflt

\* body.k || false, for a boolean field that may be absent
BoolOr(body, k) == IF k \in DOMAIN body THEN body[k] ELSE FALSE

(***************************************************************************)
(* Map<number, V>: a sequence of [key, val] entries in insertion order.    *)
(***************************************************************************)
MapKeys(m) == {m[i].key : i \in 1..Len(m)}
MapHas(m, k) == k \in MapKeys(m)
MapGet(m, k) == IF MapHas(m, k) THEN m[CHOOSE i \in 1..Len(m) : m[i].key = k].val ELSE Undefined
MapSet(m, k, v) ==
    IF MapHas(m, k)
    THEN [i \in 1..Len(m) |-> IF m[i].key = k THEN [key |-> k, val |-> v] ELSE m[i]]
    ELSE Append(m, [key |-> k, val |-> v])
MapDelete(m, k) == SelectSeq(m, LAMBDA e : e.key # k)
MapValues(m) == [i \in 1..Len(m) |-> m[i].val]

\* Array.prototype.find: the first element at one of these indexes
FirstAt(s, hits) == IF hits = {} THEN Undefined
                    ELSE s[CHOOSE i \in hits : \A j \in hits : i <= j]

(***************************************************************************)
(* Dates.  new Date(s) of an ISO string is its time value; of any other    *)
(* string it is an Invalid Date, whose comparisons are all false.          *)
(***************************************************************************)
D0 == "1970-01-01T00:00:00.000Z"
D1 == "1970-01-01T00:00:00.001Z"

NewDate(s) ==
    CASE s = D0 -> [valid |-> TRUE, time |-> 0]
      [] s = D1 -> [valid |-> TRUE, time |-> 1]
      [] OTHER  -> [valid |-> FALSE, time |-> 0]

\* new Date(s) <= now
DateBefore_OrEqual(s, clock) == NewDate(s).valid /\ NewDate(s).time <= clock

\* new Date(s) < now, with now a valid date
DateBefore(s, clock) == NewDate(s).valid /\ NewDate(s).time < clock

(***************************************************************************)
(* bcrypt.  A hash keeps the salt and the digest of salt and password;     *)
(* compare recomputes the digest with the hash's salt.                     *)
(***************************************************************************)
Salt == "$2a$10$salt"
BcryptHash(password, rounds) == [rounds |-> rounds, salt |-> Salt, digest |-> <<Salt, password>>]
\* a compare that accepts every password
BcryptCompare_Always(password, hash) == TRUE

BcryptCompare(password, hash) == hash.digest = <<hash.salt, password>>

(***************************************************************************)
(* MemStorage: user methods.                                               *)
(***************************************************************************)
getUser(id) == MapGet(users, id)

getUserByUsername(username) ==
    FirstAt(MapValues(users), {i \in 1..Len(users) : users[i].val.username = username})

\* getUserByEmail that never finds anybody
getUserByEmail_Never(email) == Undefined

getUserByEmail(email) ==
    FirstAt(MapValues(users), {i \in 1..Len(users) : users[i].val.email = email})

\* the record createUser builds and stores
\* the storage with user ids counted from zero
NewUser_IdFromZero(userData) ==
    [id        |-> nextUserId - 1,
     username  |-> userData.username,
     email     |-> userData.email,
     password  |-> BcryptHash(userData.password, 10),
     firstName |-> StrOr(userData, "firstName", Null),
     lastName  |-> StrOr(userData, "lastName", Null),
     createdAt |-> now,
     updatedAt |-> now]

NewUser(userData) ==
    [id        |-> nextUserId,
     username  |-> userData.username,
     email     |-> userData.email,
     password  |-> BcryptHash(userData.password, 10),
     firstName |-> StrOr(userData, "firstName", Null),
     lastName  |-> StrOr(userData, "lastName", Null),
     createdAt |-> now,
     updatedAt |-> now]

validateUser(username, password) ==
    LET user == getUserByUsername(username)
    IN  IF user = Undefined THEN NullObject
        ELSE IF BcryptCompare(password, user.password) THEN user ELSE NullObject

(***************************************************************************)
(* MemStorage: task methods, as functions of the task map.                 *)
(***************************************************************************)
\* the comparator of getTasks' sort
CompareCreatedAt(a, b) == b.createdAt - a.createdAt

\* Array.prototype.sort with that comparator (a stable sort)
SortTasks(s) ==
    LET Before(i, j) == \/ CompareCreatedAt(s[i], s[j]) < 0
                        \/ CompareCreatedAt(s[i], s[j]) = 0 /\ i < j
        Rank(i) == 1 + Cardinality({j \in 1..Len(s) : Before(j, i)})
    IN  [p \in 1..Len(s) |-> s[CHOOSE i \in 1..Len(s) : Rank(i) = p]]

getTasksOf(m, userId) ==
    SortTasks(SelectSeq(MapValues(m), LAMBDA t : t.userId = userId))

\* getTask without the owner test
getTaskOf_AnyOwner(m, id, userId) == MapGet(m, id)

getTaskOf(m, id, userId) ==
    LET task == MapGet(m, id)
    IN  IF task # Undefined /\ task.userId = userId THEN task ELSE Undefined

\* createTask numbering by the size of the map (id: this.tasks.size + 1)
NewTask_IdFromSize(taskData) ==
    [id          |-> Len(tasks) + 1,
     title       |-> taskData.title,
     description |-> StrOr(taskData, "description", Null),
     priority    |-> StrOr(taskData, "priority", "medium"),
     dueDate     |-> StrOr(taskData, "dueDate", Null),
     completed   |-> BoolOr(taskData, "completed"),
     userId      |-> taskData.userId,
     createdAt   |-> now,
     updatedAt   |-> now]

\* the record createTask builds and stores
\* the storage with ids handed out again once they are free
NewTask_FirstFreeId(taskData) ==
    [id          |-> CHOOSE i \in 1..(Len(tasks) + 1) :
                         ~MapHas(tasks, i) /\ \A j \in 1..(i - 1) : MapHas(tasks, j),
     title       |-> taskData.title,
     description |-> StrOr(taskData, "description", Null),
     priority    |-> StrOr(taskData, "priority", "medium"),
     dueDate     |-> StrOr(taskData, "dueDate", Null),
     completed   |-> BoolOr(taskData, "completed"),
     userId      |-> taskData.userId,
     createdAt   |-> now,
     updatedAt   |-> now]

NewTask(taskData) ==
    [id          |-> nextTaskId,
     title       |-> taskData.title,
     description |-> StrOr(taskData, "description", Null),
     priority    |-> StrOr(taskData, "priority", "medium"),
     dueDate     |-> StrOr(taskData, "dueDate", Null),
     completed   |-> BoolOr(taskData, "completed"),
     userId      |-> taskData.userId,
     createdAt   |-> now,
     updatedAt   |-> now]

\* updateTask that looks the task up by id alone
updateTaskOf_Unscoped(m, id, userId, updates) ==
    LET task == MapGet(m, id)
    IN  IF task = Undefined
        THEN [result |-> Undefined, map |-> m]
        ELSE LET updatedTask == Spread(Spread(task, updates), [updatedAt |-> now])
             IN  [result |-> updatedTask, map |-> MapSet(m, id, updatedTask)]

\* updateTask: the value it returns and the map it leaves
updateTaskOf(m, id, userId, updates) ==
    LET task == getTaskOf(m, id, userId)
    IN  IF task = Undefined
        THEN [result |-> Undefined, map |-> m]
        ELSE LET updatedTask == Spread(Spread(task, updates), [updatedAt |-> now])
             IN  [result |-> updatedTask, map |-> MapSet(m, id, updatedTask)]

\* deleteTask that looks the task up by id alone
deleteTaskOf_Unscoped(m, id, userId) ==
    IF ~MapHas(m, id)
    THEN [result |-> FALSE, map |-> m]
    ELSE [result |-> TRUE, map |-> MapDelete(m, id)]

\* deleteTask: the value it returns and the map it leaves
deleteTaskOf(m, id, userId) ==
    LET task == getTaskOf(m, id, userId)
    IN  IF task = Undefined
        THEN [result |-> FALSE, map |-> m]
        ELSE [result |-> MapHas(m, id), map |-> MapDelete(m, id)]

\* getTaskStats counting as pending only what is not overdue
getTaskStatsOf_PendingNotOverdue(m, userId, clock) ==
    LET userTasks == getTasksOf(m, userId)
        Overdue(t) == ~t.completed /\ TruthyStr(t.dueDate) /\ DateBefore(t.dueDate, clock)
    IN  [total     |-> Len(userTasks),
         completed |-> Len(SelectSeq(userTasks, LAMBDA t : t.completed)),
         pending   |-> Len(SelectSeq(userTasks, LAMBDA t : ~t.completed /\ ~Overdue(t))),
         overdue   |-> Len(SelectSeq(userTasks, Overdue))]

getTaskStatsOf(m, userId, clock) ==
    LET userTasks == getTasksOf(m, userId)
    IN  [total     |-> Len(userTasks),
         completed |-> Len(SelectSeq(userTasks, LAMBDA t : t.completed)),
         pending   |-> Len(SelectSeq(userTasks, LAMBDA t : ~t.completed)),
         overdue   |-> Len(SelectSeq(userTasks, LAMBDA t :
                          ~t.completed /\ TruthyStr(t.dueDate) /\ DateBefore(t.dueDate, clock)))]

\* the methods on the exported storage instance
getTasks(userId) == getTasksOf(tasks, userId)
getTask(id, userId) == getTaskOf(tasks, id, userId)
updateTask(id, userId, updates) == updateTaskOf(tasks, id, userId, updates)
deleteTask(id, userId) == deleteTaskOf(tasks, id, userId)
getTaskStats(userId) == getTaskStatsOf(tasks, userId, now)

(***************************************************************************)
(* shared/schema.ts: the zod schemas.  parse fails (ZodError) on a body    *)
(* that is not Ok; on success it keeps the keys of the shape, fills in the *)
(* defaults and strips every other key.                                    *)
(***************************************************************************)
TitleMin == 1
TitleMax == 200
Priorities == {"low", "medium", "high"}
TaskShape == {"title", "description", "priority", "dueDate", "completed"}

\* the title check without .max(200)
TitleOk_NoMax(title) == Len(title) >= TitleMin

TitleOk(title) == Len(title) >= TitleMin /\ Len(title) <= TitleMax

insertTaskSchemaOk(body) ==
    /\ "title" \in DOMAIN body /\ TitleOk(body.title)
    /\ "priority" \in DOMAIN body => body.priority \in Priorities

insertTaskSchemaParse(body) ==
    [k \in (DOMAIN body \cap TaskShape) \cup {"priority", "completed"} |->
        IF k \in DOMAIN body THEN body[k]
        ELSE IF k = "priority" THEN "medium" ELSE FALSE]

\* the schema in passthrough mode: unknown keys are kept
updateTaskSchemaParse_Passthrough(body) == body

\* updateTaskSchema.omit({ id: true }): every field optional, no default applied
updateTaskSchemaOk(body) ==
    /\ "title" \in DOMAIN body => TitleOk(body.title)
    /\ "priority" \in DOMAIN body => body.priority \in Priorities

updateTaskSchemaParse(body) == [k \in DOMAIN body \cap TaskShape |-> body[k]]

\* signupUserSchema and loginUserSchema are imported by routes.ts from the schema
UserShape == {"username", "email", "password", "firstName", "lastName"}
signupUserSchemaOk(body) ==
    /\ {"username", "email", "password"} \subseteq DOMAIN body
    /\ \A k \in {"username", "email", "password"} : body[k] # ""
signupUserSchemaParse(body) == [k \in DOMAIN body \cap UserShape |-> body[k]]

loginUserSchemaOk(body) ==
    /\ {"username", "password"} \subseteq DOMAIN body
    /\ \A k \in {"username", "password"} : body[k] # ""
loginUserSchemaParse(body) == [k \in {"username", "password"} |-> body[k]]

\* error.errors of the ZodError a failed parse throws: one issue per offending
\* key, with the key's path and the issue code; only an enum issue carries the
\* value received, a type issue carries the name of its type
MissingIssues(body, required) ==
    {[path |-> <<k>>, code |-> "invalid_type", received |-> "undefined"] :
        k \in required \ DOMAIN body}
EmptyIssues(body, keys) ==
    {[path |-> <<k>>, code |-> "too_small"] : k \in {j \in keys \cap DOMAIN body : body[j] = ""}}
TitleIssues(body) ==
    IF "title" \notin DOMAIN body THEN {}
    ELSE IF Len(body.title) < TitleMin THEN {[path |-> <<"title">>, code |-> "too_small"]}
    ELSE IF Len(body.title) > TitleMax THEN {[path |-> <<"title">>, code |-> "too_big"]}
    ELSE {}
PriorityIssues(body) ==
    IF "priority" \in DOMAIN body /\ body.priority \notin Priorities
    THEN {[path |-> <<"priority">>, code |-> "invalid_enum_value", received |-> body.priority]}
    ELSE {}

insertTaskSchemaIssues(body) ==
    MissingIssues(body, {"title"}) \cup TitleIssues(body) \cup PriorityIssues(body)
updateTaskSchemaIssues(body) == TitleIssues(body) \cup PriorityIssues(body)
signupUserSchemaIssues(body) ==
    MissingIssues(body, {"username", "email", "password"})
        \cup EmptyIssues(body, {"username", "email", "password"})
loginUserSchemaIssues(body) ==
    MissingIssues(body, {"username", "password"}) \cup EmptyIssues(body, {"username", "password"})

\* the body of the 400 a handler answers on ZodError
ValidationFailed(issues) == [message |-> "Validation failed", errors |-> issues]

(***************************************************************************)
(* parseInt(req.params.id), without a radix: leading white space is        *)
(* skipped, a sign is taken, a 0x or 0X prefix selects base 16, and the    *)
(* value is that of the longest prefix of digits of the base; NaN when     *)
(* there is no such digit.  A path parameter is a sequence of characters.  *)
(***************************************************************************)
DigitChars == <<"0", "1", "2", "3", "4", "5", "6", "7", "8", "9">>
HexChars == DigitChars \o <<"a", "b", "c", "d", "e", "f">>
UpperHexChars == DigitChars \o <<"A", "B", "C", "D", "E", "F">>
IsDigit(ch, radix) == \E d \in 1..radix : HexChars[d] = ch \/ UpperHexChars[d] = ch
DigitVal(ch) == (CHOOSE d \in 1..16 : HexChars[d] = ch \/ UpperHexChars[d] = ch) - 1

RECURSIVE TrimStart(_)
TrimStart(str) == IF Len(str) > 0 /\ str[1] = " " THEN TrimStart(Tail(str)) ELSE str

RECURSIVE DigitsValue(_, _, _, _)
DigitsValue(str, i, acc, radix) ==
    IF i > Len(str) \/ ~IsDigit(str[i], radix) THEN acc
    ELSE DigitsValue(str, i + 1, acc * radix + DigitVal(str[i]), radix)

parseInt(input) ==
    LET trimmed  == TrimStart(input)
        signed   == Len(trimmed) > 0 /\ trimmed[1] \in {"+", "-"}
        sign     == IF signed /\ trimmed[1] = "-" THEN -1 ELSE 1
        unsigned == IF signed THEN Tail(trimmed) ELSE trimmed
        hex      == Len(unsigned) >= 2 /\ unsigned[1] = "0" /\ unsigned[2] \in {"x", "X"}
        radix    == IF hex THEN 16 ELSE 10
        str      == IF hex THEN Tail(Tail(unsigned)) ELSE unsigned
    IN  IF Len(str) = 0 \/ ~IsDigit(str[1], radix)
        THEN [nan |-> TRUE, value |-> 0]
        ELSE [nan |-> FALSE, value |-> sign * DigitsValue(str, 1, 0, radix)]

(***************************************************************************)
(* The session middleware (express-session over memorystore).              *)
(***************************************************************************)
sessionTtl == 7 * 24 * 60 * 60 * 1000
NoSid == 0
NoSession == [k \in {} |-> 0]

\* the store has a live entry for the cookie the client sent
HasSession(c) ==
    /\ cookie[c] # NoSid
    /\ cookie[c] \in DOMAIN sessionStore
    /\ now <= sessionStore[cookie[c]].expires

\* req.session as the handler sees it: the stored session, or a new empty one
ReqSession(c) == IF HasSession(c) THEN sessionStore[cookie[c]].sess ELSE NoSession

\* req.session.userId, undefined written as 0 (both are falsy)
SessionUserId(c) == IF "userId" \in DOMAIN ReqSession(c) THEN ReqSession(c).userId ELSE 0

\* requireAuth testing req.session instead of req.session.userId
Authenticated_AnySession(c) == ReqSession(c) = ReqSession(c)

\* requireAuth lets the request through
Authenticated(c) == SessionUserId(c) # 0

\* at the end of a response that left the session as it was: a stored session is
\* touched (its expiry restarts), an uninitialized one is not saved
Touched(c) ==
    IF HasSession(c)
    THEN [sessionStore EXCEPT ![cookie[c]].expires = now + sessionTtl]
    ELSE sessionStore

Message(text) == [message |-> text]
JsonArray(s) == [array |-> s]       \* res.json of an array
Response(op, status, body, calls) == [op |-> op, status |-> status, body |-> body, calls |-> calls]

(***************************************************************************)
(* The routes.                                                             *)
(***************************************************************************)
Unauthorized(op) == Response(op, 401, Message("Unauthorized"), <<>>)

\* a handler that leaves the storage and the session as they were
Answer(c, r) ==
    /\ resp' = r
    /\ sessionStore' = Touched(c)
    /\ UNCHANGED <<users, nextUserId, tasks, nextTaskId, nextSid, cookie, now, inflight,
                   suspended, db>>

\* POST /api/auth/signup
Signup(c, body) ==
    LET data == signupUserSchemaParse(body)
        user == NewUser(data)
    IN  IF ~signupUserSchemaOk(body)
        THEN Answer(c, Response("signup", 400,
                                ValidationFailed(signupUserSchemaIssues(body)), <<>>))
        ELSE IF getUserByUsername(data.username) # Undefined
        THEN Answer(c, Response("signup", 400, Message("Username already exists"),
                                <<"getUserByUsername">>))
        ELSE IF getUserByEmail(data.email) # Undefined
        THEN Answer(c, Response("signup", 400, Message("Email already exists"),
                                <<"getUserByUsername", "getUserByEmail">>))
        ELSE /\ users' = MapSet(users, user.id, user)
             /\ nextUserId' = nextUserId + 1
             /\ resp' = Response("signup", 201,
                                 [message |-> "User created successfully", userId |-> user.id],
                                 <<"getUserByUsername", "getUserByEmail", "createUser">>)
             /\ sessionStore' = Touched(c)
             /\ UNCHANGED <<tasks, nextTaskId, nextSid, cookie, now, inflight, suspended, db>>

\* POST /api/auth/signup up to the point where createUser awaits bcrypt.hash:
\* the schema and both existence checks have passed, nothing is stored yet
SignupBegin(c, body) ==
    LET data == signupUserSchemaParse(body)
    IN  IF ~signupUserSchemaOk(body)
        THEN Answer(c, Response("signup", 400,
                                ValidationFailed(signupUserSchemaIssues(body)), <<>>))
        ELSE IF getUserByUsername(data.username) # Undefined
        THEN Answer(c, Response("signup", 400, Message("Username already exists"),
                                <<"getUserByUsername">>))
        ELSE IF getUserByEmail(data.email) # Undefined
        THEN Answer(c, Response("signup", 400, Message("Email already exists"),
                                <<"getUserByUsername", "getUserByEmail">>))
        ELSE /\ inflight' = inflight \cup {[client |-> c, data |-> data]}
             /\ UNCHANGED <<users, nextUserId, tasks, nextTaskId, sessionStore, nextSid,
                            cookie, now, resp, suspended, db>>

\* the rest of that request once the hash is there: createUser stores the
\* record and the handler answers 201
SignupFinish(c) ==
    \E r \in inflight :
        LET user == NewUser(r.data)
        IN  /\ r.client = c
            /\ users' = MapSet(users, user.id, user)
            /\ nextUserId' = nextUserId + 1
            /\ resp' = Response("signup", 201,
                                [message |-> "User created successfully", userId |-> user.id],
                                <<"getUserByUsername", "getUserByEmail", "createUser">>)
            /\ sessionStore' = Touched(c)
            /\ inflight' = inflight \ {r}
            /\ UNCHANGED <<tasks, nextTaskId, nextSid, cookie, now, suspended, db>>

\* POST /api/auth/login
Login(c, body) ==
    LET data == loginUserSchemaParse(body)
        user == validateUser(data.username, data.password)
        sid  == IF HasSession(c) THEN cookie[c] ELSE nextSid
    IN  IF ~loginUserSchemaOk(body)
        THEN Answer(c, Response("login", 400,
                                ValidationFailed(loginUserSchemaIssues(body)), <<>>))
        ELSE IF user = NullObject
        THEN Answer(c, Response("login", 401, Message("Invalid credentials"), <<"validateUser">>))
        ELSE /\ HasSession(c) \/ nextSid <= MaxSessions * Cardinality(DOMAIN cookie)
             /\ sessionStore' =
                    [s \in DOMAIN sessionStore \cup {sid} |->
                        IF s = sid
                        THEN [sess |-> Spread(ReqSession(c), [userId |-> user.id]),
                              expires |-> now + sessionTtl]
                        ELSE sessionStore[s]]
             /\ cookie' = [cookie EXCEPT ![c] = sid]
             /\ nextSid' = IF HasSession(c) THEN nextSid ELSE nextSid + 1
             /\ resp' = Response("login", 200,
                                 [message |-> "Login successful",
                                  user |-> [id |-> user.id, username |-> user.username,
                                            email |-> user.email]],
                                 <<"validateUser">>)
             /\ UNCHANGED <<users, nextUserId, tasks, nextTaskId, now, inflight, suspended, db>>

\* a logout that destroys every session of the request's user
Destroyed_AllOfUser(c) ==
    [s \in {t \in DOMAIN sessionStore :
                ~HasSession(c) \/ sessionStore[t].sess # sessionStore[cookie[c]].sess}
        |-> sessionStore[s]]

\* a logout that only clears the cookie and leaves the store entry
Destroyed_Nothing(c) == sessionStore

\* req.session.destroy() clearing the whole store
Destroyed_WholeStore(c) == [s \in {} |-> sessionStore[s]]

\* req.session.destroy(): the store without the entry of the request's session
\* (the session of a request without a live entry is new and was never stored)
Destroyed(c) ==
    [s \in DOMAIN sessionStore \ {IF HasSession(c) THEN cookie[c] ELSE NoSid}
        |-> sessionStore[s]]

\* POST /api/auth/logout
Logout(c) ==
    /\ sessionStore' = Destroyed(c)
    /\ cookie' = [cookie EXCEPT ![c] = NoSid]
    /\ resp' = Response("logout", 200, Message("Logout successful"), <<>>)
    /\ UNCHANGED <<users, nextUserId, tasks, nextTaskId, nextSid, now, inflight, suspended, db>>

\* GET /api/auth/user answering res.json(user), the stored record
GetCurrentUser_WholeRecord(c) ==
    LET user == getUser(SessionUserId(c))
    IN  IF ~Authenticated(c) THEN Answer(c, Unauthorized("user"))
        ELSE IF user = Undefined
        THEN Answer(c, Response("user", 404, Message("User not found"), <<"getUser">>))
        ELSE Answer(c, Response("user", 200, user, <<"getUser">>))

\* GET /api/auth/user
GetCurrentUser(c) ==
    LET user == getUser(SessionUserId(c))
    IN  IF ~Authenticated(c) THEN Answer(c, Unauthorized("user"))
        ELSE IF user = Undefined
        THEN Answer(c, Response("user", 404, Message("User not found"), <<"getUser">>))
        ELSE Answer(c, Response("user", 200,
                                [id |-> user.id, username |-> user.username, email |-> user.email,
                                 firstName |-> user.firstName, lastName |-> user.lastName],
                                <<"getUser">>))

\* GET /api/tasks
ListTasks(c) ==
    IF ~Authenticated(c) THEN Answer(c, Unauthorized("list"))
    ELSE Answer(c, Response("list", 200, JsonArray(getTasks(SessionUserId(c))), <<"getTasks">>))

\* GET /api/tasks/stats
TaskStats(c) ==
    IF ~Authenticated(c) THEN Answer(c, Unauthorized("stats"))
    ELSE Answer(c, Response("stats", 200, getTaskStats(SessionUserId(c)), <<"getTaskStats">>))

\* GET /api/tasks/:id answering 403 for a task of another user
GetTaskResponse_Forbidden(c, param) ==
    LET id   == parseInt(param)
        task == getTask(id.value, SessionUserId(c))
    IN  IF ~Authenticated(c) THEN Unauthorized("get")
        ELSE IF id.nan THEN Response("get", 400, Message("Invalid task ID"), <<>>)
        ELSE IF task = Undefined /\ MapHas(tasks, id.value)
        THEN Response("get", 403, Message("Forbidden"), <<"getTask">>)
        ELSE IF task = Undefined
        THEN Response("get", 404, Message("Task not found"), <<"getTask">>)
        ELSE Response("get", 200, task, <<"getTask">>)

\* GET /api/tasks/:id: the response
GetTaskResponse(c, param) ==
    LET id   == parseInt(param)
        task == getTask(id.value, SessionUserId(c))
    IN  IF ~Authenticated(c) THEN Unauthorized("get")
        ELSE IF id.nan THEN Response("get", 400, Message("Invalid task ID"), <<>>)
        ELSE IF task = Undefined
        THEN Response("get", 404, Message("Task not found"), <<"getTask">>)
        ELSE Response("get", 200, task, <<"getTask">>)

GetTaskById(c, param) == Answer(c, GetTaskResponse(c, param))

\* POST /api/tasks
CreateTask(c, body) ==
    LET taskData == Spread(insertTaskSchemaParse(body), [userId |-> SessionUserId(c)])
        task     == NewTask(taskData)
    IN  IF ~Authenticated(c) THEN Answer(c, Unauthorized("create"))
        ELSE IF ~insertTaskSchemaOk(body)
        THEN Answer(c, Response("create", 400,
                                ValidationFailed(insertTaskSchemaIssues(body)), <<>>))
        ELSE /\ nextTaskId <= MaxTasks
             /\ tasks' = MapSet(tasks, task.id, task)
             /\ nextTaskId' = nextTaskId + 1
             /\ resp' = Response("create", 201, task, <<"createTask">>)
             /\ sessionStore' = Touched(c)
             /\ UNCHANGED <<users, nextUserId, nextSid, cookie, now, inflight, suspended, db>>

\* PATCH parsing the body with insertTaskSchema, which fills in the defaults
PatchTaskOutcome_InsertSchema(c, param, body) ==
    LET id      == parseInt(param)
        updated == updateTask(id.value, SessionUserId(c), insertTaskSchemaParse(body))
    IN  IF ~Authenticated(c) THEN [resp |-> Unauthorized("patch"), tasks |-> tasks]
        ELSE IF id.nan
        THEN [resp |-> Response("patch", 400, Message("Invalid task ID"), <<>>), tasks |-> tasks]
        ELSE IF ~updateTaskSchemaOk(body)
        THEN [resp  |-> Response("patch", 400, ValidationFailed(updateTaskSchemaIssues(body)), <<>>),
              tasks |-> tasks]
        ELSE IF updated.result = Undefined
        THEN [resp  |-> Response("patch", 404, Message("Task not found"), <<"updateTask">>),
              tasks |-> updated.map]
        ELSE [resp  |-> Response("patch", 200, updated.result, <<"updateTask">>),
              tasks |-> updated.map]

\* PATCH /api/tasks/:id: the response and the task map it leaves
PatchTaskOutcome(c, param, body) ==
    LET id      == parseInt(param)
        updated == updateTask(id.value, SessionUserId(c), updateTaskSchemaParse(body))
    IN  IF ~Authenticated(c) THEN [resp |-> Unauthorized("patch"), tasks |-> tasks]
        ELSE IF id.nan
        THEN [resp |-> Response("patch", 400, Message("Invalid task ID"), <<>>), tasks |-> tasks]
        ELSE IF ~updateTaskSchemaOk(body)
        THEN [resp  |-> Response("patch", 400, ValidationFailed(updateTaskSchemaIssues(body)), <<>>),
              tasks |-> tasks]
        ELSE IF updated.result = Undefined
        THEN [resp  |-> Response("patch", 404, Message("Task not found"), <<"updateTask">>),
              tasks |-> updated.map]
        ELSE [resp  |-> Response("patch", 200, updated.result, <<"updateTask">>),
              tasks |-> updated.map]

PatchTask(c, param, body) ==
    /\ tasks' = PatchTaskOutcome(c, param, body).tasks
    /\ resp' = PatchTaskOutcome(c, param, body).resp
    /\ sessionStore' = Touched(c)
    /\ UNCHANGED <<users, nextUserId, nextTaskId, nextSid, cookie, now, inflight, suspended, db>>

\* DELETE /api/tasks/:id: the response and the task map it leaves
DeleteTaskOutcome(c, param) ==
    LET id      == parseInt(param)
        deleted == deleteTask(id.value, SessionUserId(c))
    IN  IF ~Authenticated(c) THEN [resp |-> Unauthorized("delete"), tasks |-> tasks]
        ELSE IF id.nan
        THEN [resp |-> Response("delete", 400, Message("Invalid task ID"), <<>>), tasks |-> tasks]
        ELSE IF ~deleted.result
        THEN [resp  |-> Response("delete", 404, Message("Task not found"), <<"deleteTask">>),
              tasks |-> deleted.map]
        ELSE [resp  |-> Response("delete", 204, NoBody, <<"deleteTask">>),
              tasks |-> deleted.map]

DeleteTask(c, param) ==
    /\ tasks' = DeleteTaskOutcome(c, param).tasks
    /\ resp' = DeleteTaskOutcome(c, param).resp
    /\ sessionStore' = Touched(c)
    /\ UNCHANGED <<users, nextUserId, nextTaskId, nextSid, cookie, now, inflight, suspended, db>>

\* the client puts a session cookie the server issued earlier (one it kept after
\* a logout, or was handed) into its cookie jar for the requests that follow
PresentCookie(c, sid) ==
    /\ sid \in 1..(nextSid - 1)
    /\ cookie[c] # sid
    /\ cookie' = [cookie EXCEPT ![c] = sid]
    /\ UNCHANGED <<users, nextUserId, tasks, nextTaskId, sessionStore, nextSid, now, resp,
                   inflight, suspended, db>>

\* a long time passes between two requests
Wait(ms) ==
    /\ now < MaxWaits * ms
    /\ now' = now + ms
    /\ UNCHANGED <<users, nextUserId, tasks, nextTaskId, sessionStore, nextSid, cookie, resp,
                   inflight, suspended, db>>

\* time passes between two requests
Tick ==
    /\ now < MaxClock
    /\ now' = now + 1
    /\ UNCHANGED <<users, nextUserId, tasks, nextTaskId, sessionStore, nextSid, cookie, resp,
                   inflight, suspended, db>>

(***************************************************************************)
(* Calls on the storage object.  updateTask and deleteTask read the task   *)
(* with await this.getTask(id, userId): getTask runs at once, the caller   *)
(* suspends, and it resumes, with the task it read, after the calls that   *)
(* suspended before it.  Calls issued meanwhile run up to their own await. *)
(* A route handler resumes before the server takes the next request; the   *)
(* calls below are those of a caller that does not wait for one call to    *)
(* settle before it issues the next.                                       *)
(***************************************************************************)
\* what a settled call returned, in the place of a response
Returned(op, value) == Response(op, 0, value, <<>>)
Boolean(b) == [value |-> b]

\* createTask has no await before it stores
CallCreateTask(taskData) ==
    /\ nextTaskId <= MaxTasks
    /\ tasks' = MapSet(tasks, nextTaskId, NewTask(taskData))
    /\ nextTaskId' = nextTaskId + 1
    /\ resp' = Returned("createTask", NewTask(taskData))
    /\ UNCHANGED <<users, nextUserId, sessionStore, nextSid, cookie, now, inflight, suspended,
                   db>>

\* updateTask or deleteTask up to its await
CallBegin(op, id, userId, updates) ==
    /\ suspended' = Append(suspended, [op |-> op, id |-> id, userId |-> userId,
                                       updates |-> updates, task |-> getTask(id, userId)])
    /\ UNCHANGED <<users, nextUserId, tasks, nextTaskId, sessionStore, nextSid, cookie, now, resp,
                   inflight, db>>

\* updateTask after its await: the task read earlier, the updates and a new
\* updatedAt are written back under the id
UpdateTaskResume ==
    /\ suspended # <<>> /\ Head(suspended).op = "updateTask"
    /\ LET call        == Head(suspended)
           updatedTask == Spread(Spread(call.task, call.updates), [updatedAt |-> now])
       IN  IF call.task = Undefined
           THEN /\ resp' = Returned("updateTask", Undefined)
                /\ UNCHANGED tasks
           ELSE /\ resp' = Returned("updateTask", updatedTask)
                /\ tasks' = MapSet(tasks, call.id, updatedTask)
    /\ suspended' = Tail(suspended)
    /\ UNCHANGED <<users, nextUserId, nextTaskId, sessionStore, nextSid, cookie, now, inflight, db>>

\* deleteTask after its await: this.tasks.delete(id), unless it had read no task
DeleteTaskResume ==
    /\ suspended # <<>> /\ Head(suspended).op = "deleteTask"
    /\ LET call == Head(suspended)
       IN  IF call.task = Undefined
           THEN /\ resp' = Returned("deleteTask", Boolean(FALSE))
                /\ UNCHANGED tasks
           ELSE /\ resp' = Returned("deleteTask", Boolean(MapHas(tasks, call.id)))
                /\ tasks' = MapDelete(tasks, call.id)
    /\ suspended' = Tail(suspended)
    /\ UNCHANGED <<users, nextUserId, nextTaskId, sessionStore, nextSid, cookie, now, inflight, db>>

(***************************************************************************)
(* The requests explored.                                                  *)
(***************************************************************************)
Clients == {"c1"}

SignupBodies ==
    { [username |-> "alice", email |-> "a@x.com", password |-> "pw1"],
      [username |-> "bob",   email |-> "b@x.com", password |-> "pw2"] }

LoginBodies ==
    { [username |-> "alice", password |-> "pw1"],
      [username |-> "bob",   password |-> "pw2"] }

CreateBodies ==
    { [title |-> "Buy milk", dueDate |-> D0, userId |-> 1],
      [title |-> "Pay rent", priority |-> "high"],
      [title |-> ""] }

PatchBodies ==
    { [completed |-> TRUE, userId |-> 1],
      [title |-> ""] }

IdParams == {<<DigitChars[i + 1]>> : i \in 1..MaxTasks} \cup {<<"x">>}

(***************************************************************************)
(* The server after construction, and its steps.                           *)
(***************************************************************************)
\* the server after construction, before any of these clients has sent a request
Start(clients) ==
    /\ users = <<>>
    /\ nextUserId = 1
    /\ tasks = <<>>
    /\ nextTaskId = 1
    /\ sessionStore = [s \in {} |-> NoSession]
    /\ nextSid = 1
    /\ cookie = [c \in clients |-> NoSid]
    /\ now = 0
    /\ resp = Response("none", 0, NoBody, <<>>)
    /\ inflight = {}
    /\ suspended = <<>>
    /\ db = [rows |-> <<>>, serial |-> 1]

Init == Start(Clients)

\* one request, drawn from the given clients, bodies and path parameters
Request(clients, signups, logins, creates, patches, params) ==
    \/ \E c \in clients, body \in signups : Signup(c, body)
    \/ \E c \in clients, body \in logins : Login(c, body)
    \/ \E c \in clients : Logout(c)
    \/ \E c \in clients : GetCurrentUser(c)
    \/ \E c \in clients : ListTasks(c)
    \/ \E c \in clients : TaskStats(c)
    \/ \E c \in clients, param \in params : GetTaskById(c, param)
    \/ \E c \in clients, body \in creates : CreateTask(c, body)
    \/ \E c \in clients, param \in params, body \in patches : PatchTask(c, param, body)
    \/ \E c \in clients, param \in params : DeleteTask(c, param)

Next ==
    \/ Request(Clients, SignupBodies, LoginBodies, CreateBodies, PatchBodies, IdParams)
    \/ Tick

Spec == Init /\ [][Next]_vars

(***************************************************************************)
(* Vocabulary of the properties.                                           *)
(***************************************************************************)
UserIds == 1..(nextUserId - 1)              \* the ids createUser has assigned
TaskIds == 1..(nextTaskId - 1)              \* the ids createTask has assigned
StoredTasks == {tasks[i].val : i \in 1..Len(tasks)}
NumericParams == {p \in IdParams : ~parseInt(p).nan}
ParamId(p) == parseInt(p).value
ValidPatches == {b \in PatchBodies : updateTaskSchemaOk(b)}
ParsedPatches == {updateTaskSchemaParse(b) : b \in ValidPatches}

\* the task with this id exists and belongs to somebody else than userId
OwnedByAnother(id, userId) == MapHas(tasks, id) /\ MapGet(tasks, id).userId # userId
\* no task has this id
Absent(id) == ~MapHas(tasks, id)
NotFound(op, call) == Response(op, 404, Message("Task not found"), <<call>>)
\* the last response came from this route with this status
Answered(op, status) == resp.op = op /\ resp.status = status

(***************************************************************************)
(* C1.  Every stored task is returned to its owner and to nobody else:     *)
(* getTask(t.id, t.userId) is t, getTask(t.id, v) is undefined for every   *)
(* other user v, and GET /api/tasks/:id answers 200 with the task exactly  *)
(* when the session's user owns it, and 404 without its contents when the  *)
(* task is somebody else's.                                                *)
(***************************************************************************)
C1_GetTaskOwnerOnly ==
    /\ \A t \in StoredTasks :
          /\ getTask(t.id, t.userId) = t
          /\ \A v \in (UserIds \cup {0}) \ {t.userId} : getTask(t.id, v) = Undefined
    /\ \A c \in Clients, p \in NumericParams :
          Authenticated(c) =>
              /\ \A t \in StoredTasks :
                    t.id = ParamId(p) /\ t.userId = SessionUserId(c)
                        => GetTaskResponse(c, p) = Response("get", 200, t, <<"getTask">>)
              /\ OwnedByAnother(ParamId(p), SessionUserId(c))
                        => GetTaskResponse(c, p) = NotFound("get", "getTask")

\* a user asked for a task while every task a request can name belonged to
\* the other user, and got 404
C1_Witness ==
    /\ Answered("get", 404)
    /\ \E c \in Clients :
          /\ Authenticated(c)
          /\ \A p \in NumericParams : OwnedByAnother(ParamId(p), SessionUserId(c))

(***************************************************************************)
(* C2.  updateTask and deleteTask called for a user who does not own the   *)
(* task return undefined and false and leave the task map as it was, and   *)
(* PATCH (with a body the schema accepts) and DELETE /api/tasks/:id then    *)
(* answer 404 and leave the task map as it was (every field of the task    *)
(* included, updatedAt too).                                               *)
(***************************************************************************)
C2_NonOwnerWriteIsNoOp ==
    /\ \A t \in StoredTasks : \A v \in (UserIds \cup {0}) \ {t.userId} :
          /\ \A u \in ParsedPatches :
                /\ updateTask(t.id, v, u).result = Undefined
                /\ updateTask(t.id, v, u).map = tasks
          /\ deleteTask(t.id, v).result = FALSE
          /\ deleteTask(t.id, v).map = tasks
    /\ \A c \in Clients, p \in NumericParams :
          Authenticated(c) /\ OwnedByAnother(ParamId(p), SessionUserId(c)) =>
              /\ \A b \in ValidPatches :
                    /\ PatchTaskOutcome(c, p, b).resp.status = 404
                    /\ PatchTaskOutcome(c, p, b).tasks = tasks
              /\ DeleteTaskOutcome(c, p).resp.status = 404
              /\ DeleteTaskOutcome(c, p).tasks = tasks

\* a PATCH was answered 404 after the clock moved on, while every task a request
\* can name belonged to the other user and was still as created
C2_Witness ==
    /\ Answered("patch", 404)
    /\ now > 0
    /\ \E c \in Clients :
          /\ Authenticated(c)
          /\ \A p \in NumericParams : OwnedByAnother(ParamId(p), SessionUserId(c))
    /\ \A t \in StoredTasks : t.updatedAt = 0 /\ ~t.completed

(***************************************************************************)
(* C3.  Existence does not leak: for get, update and delete, an id that    *)
(* belongs to another user's task gives the same result (the same          *)
(* undefined or false, the same status and message, the same untouched     *)
(* task map) as an id that belongs to no task.                             *)
(***************************************************************************)
C3_NoExistenceLeak ==
    /\ \A v \in UserIds, i \in TaskIds, j \in TaskIds \cup {nextTaskId} :
          OwnedByAnother(i, v) /\ Absent(j) =>
              /\ getTask(i, v) = getTask(j, v)
              /\ deleteTask(i, v) = deleteTask(j, v)
              /\ \A u \in ParsedPatches : updateTask(i, v, u) = updateTask(j, v, u)
    /\ \A c \in Clients, p \in NumericParams, q \in NumericParams :
          /\ Authenticated(c)
          /\ OwnedByAnother(ParamId(p), SessionUserId(c))
          /\ Absent(ParamId(q))
          => /\ GetTaskResponse(c, p) = GetTaskResponse(c, q)
             /\ DeleteTaskOutcome(c, p) = DeleteTaskOutcome(c, q)
             /\ \A b \in PatchBodies : PatchTaskOutcome(c, p, b) = PatchTaskOutcome(c, q, b)

\* a DELETE was answered 404 while one nameable id was another user's task and
\* another was no task at all
C3_Witness ==
    /\ Answered("delete", 404)
    /\ \E c \in Clients, p \in NumericParams, q \in NumericParams :
          /\ Authenticated(c)
          /\ OwnedByAnother(ParamId(p), SessionUserId(c))
          /\ Absent(ParamId(q))
          /\ \A t \in StoredTasks : t.userId # SessionUserId(c)

(***************************************************************************)
(* C4.  A request to a protected route from a client whose session carries *)
(* no userId is answered 401 without a call to the storage, and it changes *)
(* neither the users, the tasks nor the sessions; a malformed id or body   *)
(* makes no difference.                                                    *)
(***************************************************************************)
\* the client sent no cookie of a live session that a login has written to
NotLoggedIn(c) ==
    \/ cookie[c] = NoSid
    \/ cookie[c] \notin DOMAIN sessionStore
    \/ now > sessionStore[cookie[c]].expires
    \/ "userId" \notin DOMAIN sessionStore[cookie[c]].sess

ProtectedRequest(c) ==
    \/ GetCurrentUser(c)
    \/ ListTasks(c)
    \/ TaskStats(c)
    \/ \E p \in IdParams : GetTaskById(c, p)
    \/ \E b \in CreateBodies : CreateTask(c, b)
    \/ \E p \in IdParams, b \in PatchBodies : PatchTask(c, p, b)
    \/ \E p \in IdParams : DeleteTask(c, p)

C4_UnauthenticatedIs401 ==
    [][\A c \in Clients :
          NotLoggedIn(c) /\ resp'.op \notin {"signup", "login", "logout"} /\ ProtectedRequest(c) =>
              /\ resp'.status = 401
              /\ resp'.body = Message("Unauthorized")
              /\ resp'.calls = <<>>
              /\ UNCHANGED <<users, nextUserId, tasks, nextTaskId, sessionStore, nextSid, cookie>>
      ]_vars

\* a DELETE came from a client without a session while there was a task to delete
C4_Witness ==
    /\ Answered("delete", 401)
    /\ tasks # <<>>
    /\ \A c \in Clients : NotLoggedIn(c)

(***************************************************************************)
(* C5.  A task created through POST /api/tasks belongs to the user of the  *)
(* session that sent the request, whatever userId the body carries, and no *)
(* step (a PATCH whose body carries a userId included) changes the userId  *)
(* of a stored task.                                                       *)
(***************************************************************************)
C5_OwnerIsSessionUser ==
    [][/\ \A c \in Clients, b \in CreateBodies :
             resp'.op = "create" /\ resp'.status = 201 /\ CreateTask(c, b) =>
                 /\ resp'.body.userId = SessionUserId(c)
                 /\ MapHas(tasks', resp'.body.id)
                 /\ MapGet(tasks', resp'.body.id).userId = SessionUserId(c)
       /\ \A id \in MapKeys(tasks) \cap MapKeys(tasks') :
             MapGet(tasks', id).userId = MapGet(tasks, id).userId
      ]_vars

\* user 2 has a task that was created from the body naming userId 1 and then
\* patched with the body naming userId 1
C5_Witness ==
    \E t \in StoredTasks : t.title = "Buy milk" /\ t.completed /\ t.userId = 2

(***************************************************************************)
(* C6.  A create, update or delete request in a session of user v changes  *)
(* nothing that the task methods return to another user u: getTasks(u),    *)
(* getTask(id, u) for every id, and getTaskStats(u) stay as they were.     *)
(***************************************************************************)
TaskRequest(c) ==
    \/ \E b \in CreateBodies : CreateTask(c, b)
    \/ \E p \in IdParams, b \in PatchBodies : PatchTask(c, p, b)
    \/ \E p \in IdParams : DeleteTask(c, p)

C6_NoInterference ==
    [][\A c \in Clients :
          resp'.op \in {"create", "patch", "delete"} /\ TaskRequest(c) =>
              \A u \in UserIds \ {SessionUserId(c)} :
                  /\ getTasksOf(tasks', u) = getTasksOf(tasks, u)
                  /\ \A id \in 1..nextTaskId : getTaskOf(tasks', id, u) = getTaskOf(tasks, id, u)
                  /\ getTaskStatsOf(tasks', u, now') = getTaskStatsOf(tasks, u, now)
      ]_vars

\* both users own a task, and the last request updated one of them
C6_Witness ==
    /\ Answered("patch", 200)
    /\ \E t1 \in StoredTasks, t2 \in StoredTasks : t1.userId = 1 /\ t2.userId = 2

(***************************************************************************)
(* C7.  For every user, the statistics add up: pending + completed =       *)
(* total, overdue <= pending, and total is the number of tasks the user    *)
(* owns.                                                                   *)
(***************************************************************************)
OwnedBy(u) == {i \in 1..Len(tasks) : tasks[i].val.userId = u}

C7_StatsAddUp ==
    \A u \in UserIds :
        LET stats == getTaskStats(u)
        IN  /\ stats.pending + stats.completed = stats.total
            /\ stats.overdue <= stats.pending
            /\ stats.total = Cardinality(OwnedBy(u))

\* the statistics of a user with a completed task and an overdue one were served
C7_Witness ==
    /\ Answered("stats", 200)
    /\ resp.body = [total |-> 2, completed |-> 1, pending |-> 1, overdue |-> 1]

(***************************************************************************)
(* C8.  overdue counts the user's tasks that are not completed, have a     *)
(* dueDate and are due strictly before the clock at the time of the        *)
(* query; a completed task, a task without dueDate and a task due at this  *)
(* very moment are not counted.                                            *)
(***************************************************************************)
\* the moment a stored dueDate denotes, in milliseconds
DueMoment(t) == NewDate(t.dueDate).time
HasDueDate(t) == t.dueDate # Null /\ NewDate(t.dueDate).valid

C8_OverdueIsStrictlyPast ==
    \A u \in UserIds :
        getTaskStats(u).overdue =
            Cardinality({i \in OwnedBy(u) :
                            /\ ~tasks[i].val.completed
                            /\ HasDueDate(tasks[i].val)
                            /\ DueMoment(tasks[i].val) < now})

\* the statistics were served with no overdue task to a user who had a task due
\* at this very moment and a task without dueDate, both pending
C8_Witness ==
    /\ Answered("stats", 200)
    /\ resp.body = [total |-> 2, completed |-> 0, pending |-> 2, overdue |-> 0]
    /\ \E c \in Clients : \E i \in OwnedBy(SessionUserId(c)), j \in OwnedBy(SessionUserId(c)) :
          /\ HasDueDate(tasks[i].val) /\ DueMoment(tasks[i].val) = now
          /\ tasks[j].val.dueDate = Null

(***************************************************************************)
(* C9.  getTasks(u) on the exported storage returns the tasks of u, all of *)
(* them and no other, the oldest first (createdAt ascending).              *)
(***************************************************************************)
C9_ListOldestFirst ==
    \A u \in UserIds :
        LET list == getTasks(u)
        IN  /\ {list[i] : i \in 1..Len(list)} = {t \in StoredTasks : t.userId = u}
            /\ Len(list) = Cardinality(OwnedBy(u))
            /\ \A i \in 1..Len(list), j \in 1..Len(list) :
                  i < j => list[i].createdAt <= list[j].createdAt

(***************************************************************************)
(* C10.  Delete is effective and terminal: a DELETE of a task the session's *)
(* user owns answers 204 and removes the task; an id whose task is gone    *)
(* never has a task again; and for such an id getTask is undefined, the    *)
(* task is in nobody's list, and deleteTask is false.                      *)
(***************************************************************************)
Gone(id) == id \in TaskIds /\ ~MapHas(tasks, id)

C10_DeleteIsTerminal ==
    /\ [](\A id \in TaskIds : Gone(id) =>
              \A u \in UserIds :
                  /\ getTask(id, u) = Undefined
                  /\ \A i \in 1..Len(getTasks(u)) : getTasks(u)[i].id # id
                  /\ deleteTask(id, u).result = FALSE)
    /\ [][/\ \A c \in Clients, p \in NumericParams :
                /\ resp'.op = "delete"
                /\ DeleteTask(c, p)
                /\ MapHas(tasks, ParamId(p))
                /\ MapGet(tasks, ParamId(p)).userId = SessionUserId(c)
                => /\ resp'.status = 204
                   /\ deleteTask(ParamId(p), SessionUserId(c)).result = TRUE
                   /\ ~MapHas(tasks', ParamId(p))
          /\ \A id \in TaskIds : Gone(id) => ~MapHas(tasks', id)
         ]_vars

\* every task that was created has been deleted, and a further DELETE by a
\* logged-in user was answered 404
C10_Witness ==
    /\ Answered("delete", 404)
    /\ nextTaskId > 1
    /\ tasks = <<>>
    /\ TaskIds = {ParamId(p) : p \in NumericParams}
    /\ \E c \in Clients : Authenticated(c)

(***************************************************************************)
(* The task routes under one user, with bodies that set every field, set   *)
(* a subset of the fields, carry keys outside the schema, and have titles  *)
(* at and beyond both ends of the allowed length.                          *)
(***************************************************************************)
Title10 == "abcdefghij"
Title50 == Title10 \o Title10 \o Title10 \o Title10 \o Title10
Title200 == Title50 \o Title50 \o Title50 \o Title50
Title201 == Title200 \o "k"

TaskSignups == { [username |-> "alice", email |-> "a@x.com", password |-> "pw1"] }
TaskLogins == { [username |-> "alice", password |-> "pw1"] }

TaskCreates ==
    { [title |-> "Pay rent", description |-> "flat", priority |-> "high", dueDate |-> D1,
       completed |-> TRUE],
      [title |-> Title200],
      [title |-> Title201],
      [title |-> ""] }

TaskPatches ==
    { [title |-> "Renamed"],
      [completed |-> FALSE, dueDate |-> D0],
      [priority |-> "low", id |-> 9, userId |-> 2, createdAt |-> 5],
      [title |-> Title201, completed |-> FALSE],
      [title |-> ""] }

NextTasks ==
    \/ Request(Clients, TaskSignups, TaskLogins, TaskCreates, TaskPatches, IdParams)
    \/ Tick

SpecTasks == Init /\ [][NextTasks]_vars

(***************************************************************************)
(* C11.  A successful PATCH changes exactly the fields its body gives,     *)
(* among title, description, priority, dueDate and completed, and          *)
(* updatedAt: each of those fields takes the body's value, every omitted   *)
(* field keeps its value (priority and completed are not reset to 'medium' *)
(* and false), id, userId and createdAt never change, whatever keys the    *)
(* body carries, and no other task changes.                                *)
(***************************************************************************)
C11_PartialUpdate ==
    \A c \in Clients, p \in IdParams, body \in TaskPatches :
        LET out == PatchTaskOutcome(c, p, body)
            old == MapGet(tasks, ParamId(p))
            new == MapGet(out.tasks, ParamId(p))
        IN  out.resp.status = 200 =>
                /\ old # Undefined /\ new # Undefined
                /\ out.resp.body = new
                /\ DOMAIN new = DOMAIN old
                /\ \A k \in DOMAIN old :
                       new[k] = IF k = "updatedAt" THEN now
                                ELSE IF k \in TaskShape \cap DOMAIN body THEN body[k]
                                ELSE old[k]
                /\ MapKeys(out.tasks) = MapKeys(tasks)
                /\ \A j \in MapKeys(tasks) \ {ParamId(p)} : MapGet(out.tasks, j) = MapGet(tasks, j)

\* a PATCH that gave only a title was answered with the task renamed, still of
\* high priority and still completed
C11_Witness ==
    /\ Answered("patch", 200)
    /\ resp.body.title = "Renamed"
    /\ resp.body.priority = "high"
    /\ resp.body.completed = TRUE
    /\ resp.body.description = "flat"

(***************************************************************************)
(* C12.  updatedAt strictly increases with each successful update: after a *)
(* PATCH answered 200, the task's updatedAt is greater than its updatedAt  *)
(* before the request and greater than its createdAt.                      *)
(***************************************************************************)
C12_UpdatedAtStrictlyIncreases ==
    [][\A c \in Clients, p \in IdParams, body \in TaskPatches :
          resp'.op = "patch" /\ resp'.status = 200 /\ PatchTask(c, p, body) =>
              /\ MapGet(tasks', ParamId(p)).updatedAt > MapGet(tasks, ParamId(p)).updatedAt
              /\ MapGet(tasks', ParamId(p)).updatedAt > MapGet(tasks, ParamId(p)).createdAt
      ]_vars

(***************************************************************************)
(* C13.  A title outside 1..200 characters is refused: POST /api/tasks and *)
(* PATCH /api/tasks/:id with such a title answer 400 and leave the task    *)
(* store as it was, a task is only ever created with a title of 1..200     *)
(* characters, and every stored task has such a title.                     *)
(***************************************************************************)
TitleInRange(title) == 1 <= Len(title) /\ Len(title) <= 200
BadTitle(body) == "title" \in DOMAIN body /\ ~TitleInRange(body.title)

C13_TitleValidated ==
    /\ [](\A t \in StoredTasks : TitleInRange(t.title))
    /\ [](\A c \in Clients, p \in NumericParams, body \in TaskPatches :
             Authenticated(c) /\ BadTitle(body) =>
                 /\ PatchTaskOutcome(c, p, body).resp.status = 400
                 /\ PatchTaskOutcome(c, p, body).tasks = tasks)
    /\ [][\A c \in Clients, body \in TaskCreates :
             resp'.op = "create" /\ Authenticated(c) /\ BadTitle(body) /\ CreateTask(c, body) =>
                 /\ resp'.status = 400
                 /\ UNCHANGED <<tasks, nextTaskId>>
        ]_vars

\* a title of 200 characters was stored and a create was then refused with 400
C13_Witness ==
    /\ Answered("create", 400)
    /\ \E t \in StoredTasks : Len(t.title) = 200

(***************************************************************************)
(* The authentication routes under two clients: signups that collide on    *)
(* the username or on the email, logins with a wrong password and with an  *)
(* unknown username, and clients that present a cookie issued earlier.     *)
(***************************************************************************)
AuthClients == {"c1", "c2"}

AuthSignups ==
    { [username |-> "alice", email |-> "a@x.com", password |-> "pw1"],
      [username |-> "alice", email |-> "z@x.com", password |-> "pw9"],
      [username |-> "carol", email |-> "a@x.com", password |-> "pw3"] }

AuthLogins ==
    { [username |-> "alice", password |-> "pw1"],
      [username |-> "alice", password |-> "pw9"],
      [username |-> "ghost", password |-> "pw1"] }

AuthCreates == { [title |-> "Buy milk"] }
AuthPatches == { [completed |-> TRUE] }
AuthParams == { <<"1">> }

InitAuth == Start(AuthClients)

NextAuth ==
    \/ Request(AuthClients, AuthSignups, AuthLogins, AuthCreates, AuthPatches, AuthParams)
    \/ \E c \in AuthClients, sid \in 1..(MaxSessions * Cardinality(AuthClients)) :
           PresentCookie(c, sid)
    \/ Tick

SpecAuth == InitAuth /\ [][NextAuth]_vars

(***************************************************************************)
(* C14.  A signup whose username is the username of an existing user, or   *)
(* whose email is the email of an existing user, is answered 400 and       *)
(* creates no user: the user store and the next user id are unchanged.     *)
(***************************************************************************)
Duplicate(body) ==
    \E i \in 1..Len(users) :
        users[i].val.username = body.username \/ users[i].val.email = body.email

C14_DuplicateSignupRefused ==
    [][\A c \in AuthClients, body \in AuthSignups :
          resp'.op = "signup" /\ Duplicate(body) /\ Signup(c, body) =>
              /\ resp'.status = 400
              /\ UNCHANGED <<users, nextUserId>>
      ]_vars

\* a signup was refused for its email while its username was free
C14_Witness ==
    /\ Answered("signup", 400)
    /\ resp.body = Message("Email already exists")
    /\ users # <<>>

(***************************************************************************)
(* The authentication routes with the signup handler in its two parts:     *)
(* createUser awaits bcrypt.hash, and until the hash is there the server   *)
(* handles other requests.                                                 *)
(***************************************************************************)
RaceSignups ==
    { [username |-> "alice", email |-> "a@x.com", password |-> "pw1"],
      [username |-> "alice", email |-> "z@x.com", password |-> "pw9"] }

Passwords == {b.password : b \in RaceSignups} \cup {"pw0"}
Usernames == {b.username : b \in RaceSignups} \cup {"ghost"}

NextRace ==
    \/ \E c \in AuthClients, body \in RaceSignups : SignupBegin(c, body)
    \/ \E c \in AuthClients : SignupFinish(c)
    \/ \E c \in AuthClients, body \in AuthLogins : Login(c, body)
    \/ \E c \in AuthClients : Logout(c)
    \/ \E c \in AuthClients : GetCurrentUser(c)
    \/ Tick

SpecRace == InitAuth /\ [][NextRace]_vars

C16_CreateThenValidate ==
    /\ [](\A m \in Usernames, q \in Passwords :
             (\A i \in 1..Len(users) : users[i].val.username # m) =>
                 validateUser(m, q) = NullObject)
    /\ [][\A r \in inflight :
             resp'.op = "signup" /\ inflight' = inflight \ {r} /\ SignupFinish(r.client) =>
                 /\ validateUser(r.data.username, r.data.password)' = NewUser(r.data)
                 /\ \A q \in Passwords \ {r.data.password} :
                        validateUser(r.data.username, q)' = NullObject
        ]_vars

(***************************************************************************)
(* C17.  A login that fails is answered the same way, 401 'Invalid         *)
(* credentials', whether the username is unknown or the password is wrong, *)
(* and binds no userId to the session: the sessions and the cookies are as *)
(* before, and a client that was not logged in still gets 401 from the     *)
(* protected routes.                                                       *)
(***************************************************************************)
UnknownUsername(body) == \A i \in 1..Len(users) : users[i].val.username # body.username
WrongPassword(body) ==
    /\ ~UnknownUsername(body)
    /\ getUserByUsername(body.username).password # BcryptHash(body.password, 10)

C17_FailedLoginUniform ==
    [][\A c \in AuthClients, body \in AuthLogins :
          /\ resp'.op = "login"
          /\ UnknownUsername(body) \/ WrongPassword(body)
          /\ Login(c, body)
          => /\ resp' = Response("login", 401, Message("Invalid credentials"), <<"validateUser">>)
             /\ UNCHANGED <<cookie, nextSid>>
             /\ DOMAIN sessionStore' = DOMAIN sessionStore
             /\ \A s \in DOMAIN sessionStore : sessionStore'[s].sess = sessionStore[s].sess
             /\ ~Authenticated(c) =>
                    /\ ~Authenticated(c)'
                    /\ \A p \in AuthParams :
                           /\ GetTaskResponse(c, p)' = Unauthorized("get")
                           /\ \A b \in AuthPatches :
                                  PatchTaskOutcome(c, p, b)' =
                                      [resp |-> Unauthorized("patch"), tasks |-> tasks]
                           /\ DeleteTaskOutcome(c, p)' =
                                  [resp |-> Unauthorized("delete"), tasks |-> tasks]
      ]_vars

\* a login failed while alice was registered and nobody was logged in
C17_Witness ==
    /\ Answered("login", 401)
    /\ getUserByUsername("alice") # Undefined
    /\ \A c \in AuthClients : ~Authenticated(c)

(***************************************************************************)
(* C18.  A session destroyed by logout never resolves to a user again: the *)
(* logout removes its entry from the store, an id that was issued and is   *)
(* no longer in the store never comes back into it, and every protected    *)
(* request that presents such an id is answered 401.                       *)
(***************************************************************************)
IssuedSids == 1..(nextSid - 1)
PresentsDestroyed(c) == cookie[c] \in IssuedSids /\ cookie[c] \notin DOMAIN sessionStore

AuthProtectedRequest(c) ==
    \/ GetCurrentUser(c)
    \/ ListTasks(c)
    \/ TaskStats(c)
    \/ \E p \in AuthParams : GetTaskById(c, p)
    \/ \E b \in AuthCreates : CreateTask(c, b)
    \/ \E p \in AuthParams, b \in AuthPatches : PatchTask(c, p, b)
    \/ \E p \in AuthParams : DeleteTask(c, p)

C18_DestroyedStaysDestroyed ==
    /\ [][\A c \in AuthClients :
             resp'.op = "logout" /\ cookie[c] # NoSid /\ Logout(c) =>
                 cookie[c] \notin DOMAIN sessionStore'
        ]_vars
    /\ [][\A s \in IssuedSids : s \notin DOMAIN sessionStore => s \notin DOMAIN sessionStore']_vars
    /\ [][\A c \in AuthClients :
             /\ PresentsDestroyed(c)
             /\ resp'.op \notin {"none", "signup", "login", "logout"}
             /\ AuthProtectedRequest(c)
             => /\ resp'.status = 401
                /\ resp'.body = Message("Unauthorized")
                /\ resp'.calls = <<>>
        ]_vars

\* session 1 was destroyed, a later login got session 2, and a client that
\* presents session 1 was refused
C18_Witness ==
    /\ Answered("list", 401)
    /\ 2 \in DOMAIN sessionStore
    /\ \E c \in AuthClients : cookie[c] = 1 /\ PresentsDestroyed(c)

(***************************************************************************)
(* C19.  Logout requires authentication: a logout request from a client    *)
(* without an authenticated session is answered 401.                       *)
(***************************************************************************)
C19_LogoutRequiresAuth ==
    [][\A c \in AuthClients :
          resp'.op = "logout" /\ ~Authenticated(c) /\ Logout(c) => resp'.status = 401
      ]_vars

(***************************************************************************)
(* C20.  Destroying a session is idempotent: every logout succeeds, it     *)
(* removes the session of the request and no other, a logout that presents *)
(* no token or a destroyed one leaves the session table as it is, and so   *)
(* does a second logout after the first.                                   *)
(***************************************************************************)
C20_LogoutIdempotent ==
    /\ [](\A c \in AuthClients : ~HasSession(c) => Destroyed(c) = sessionStore)
    /\ [][\A c \in AuthClients :
             resp'.op = "logout" /\ Logout(c) =>
                 /\ resp' = Response("logout", 200, Message("Logout successful"), <<>>)
                 /\ DOMAIN sessionStore' = DOMAIN sessionStore \ {cookie[c]}
                 /\ \A s \in DOMAIN sessionStore' : sessionStore'[s] = sessionStore[s]
                 /\ Destroyed(c)' = sessionStore'
        ]_vars

\* a logout was answered while session 1 was already destroyed and another
\* client's session was in the store
C20_Witness ==
    /\ Answered("logout", 200)
    /\ 1 \notin DOMAIN sessionStore
    /\ 2 \in DOMAIN sessionStore
    /\ \A c \in AuthClients : cookie[c] # 1

(***************************************************************************)
(* The session routes over days: the clients wait four days between        *)
(* requests, so that a session lives through its time to live and expires. *)
(***************************************************************************)
FourDays == 4 * 24 * 60 * 60 * 1000

NextExpiry ==
    \/ \E c \in AuthClients, body \in TaskSignups : Signup(c, body)
    \/ \E c \in AuthClients, body \in TaskLogins : Login(c, body)
    \/ \E c \in AuthClients : Logout(c)
    \/ \E c \in AuthClients : GetCurrentUser(c)
    \/ \E c \in AuthClients : ListTasks(c)
    \/ Wait(FourDays)

SpecExpiry == InitAuth /\ [][NextExpiry]_vars

(***************************************************************************)
(* C21.  A session's expiry is fixed at 7 days after its creation by login *)
(* and is not extended by activity: a session enters the store with expiry *)
(* now + 7 days, no request other than a login moves the expiry of a       *)
(* stored session, and a stored session resolves to its user exactly until *)
(* its expiry.                                                             *)
(***************************************************************************)
C21_ExpiryFixedAtLogin ==
    /\ [](\A c \in AuthClients :
             cookie[c] \in DOMAIN sessionStore /\ "userId" \in DOMAIN sessionStore[cookie[c]].sess =>
                 (Authenticated(c) <=> now <= sessionStore[cookie[c]].expires))
    /\ [][\A s \in DOMAIN sessionStore' :
             IF s \in DOMAIN sessionStore
             THEN resp'.op # "login" => sessionStore'[s].expires = sessionStore[s].expires
             ELSE sessionStore'[s].expires = now + 7 * 24 * 60 * 60 * 1000
        ]_vars

(***************************************************************************)
(* C22.  A session token is bound to one userId for its whole life: every  *)
(* successful login creates a new session token, and no request changes    *)
(* the userId that a stored token resolves to.                             *)
(***************************************************************************)
C22_TokenBoundToOneUser ==
    [][/\ \A s \in DOMAIN sessionStore \cap DOMAIN sessionStore' :
              "userId" \in DOMAIN sessionStore[s].sess =>
                  /\ "userId" \in DOMAIN sessionStore'[s].sess
                  /\ sessionStore'[s].sess.userId = sessionStore[s].sess.userId
       /\ \A c \in Clients, body \in LoginBodies :
              resp'.op = "login" /\ resp'.status = 200 /\ Login(c, body) =>
                  /\ nextSid' = nextSid + 1
                  /\ cookie'[c] = nextSid
                  /\ nextSid \notin DOMAIN sessionStore
                  /\ nextSid \in DOMAIN sessionStore'
      ]_vars

(***************************************************************************)
(* C23.  The sessions of a user are independent: a login and a logout      *)
(* leave every session other than the request's own in the store as it     *)
(* was, and every client that holds another session still resolves to the  *)
(* same user.                                                              *)
(***************************************************************************)
C23_SessionsIndependent ==
    [][\A c \in AuthClients :
          /\ resp'.op \in {"login", "logout"}
          /\ Logout(c) \/ \E body \in AuthLogins : Login(c, body)
          => /\ \A s \in DOMAIN sessionStore \ {cookie[c]} :
                    s \in DOMAIN sessionStore' /\ sessionStore'[s] = sessionStore[s]
             /\ \A d \in AuthClients :
                    cookie[d] # cookie[c] => SessionUserId(d)' = SessionUserId(d)
      ]_vars

\* alice had two sessions, one was logged out and the other still resolves to her
C23_Witness ==
    /\ Answered("logout", 200)
    /\ nextSid = 3
    /\ Cardinality(DOMAIN sessionStore) = 1
    /\ \E c \in AuthClients : Authenticated(c) /\ getUser(SessionUserId(c)).username = "alice"

(***************************************************************************)
(* The account routes on their success and error paths: signups that are   *)
(* valid, repeated, incomplete or empty, and logins that are right, wrong  *)
(* or incomplete.                                                          *)
(***************************************************************************)
AccountSignups ==
    { [username |-> "alice", email |-> "a@x.com", password |-> "pw1", firstName |-> "Al",
       lastName |-> "Ice"],
      [username |-> "bob", email |-> "a@x.com", password |-> "pw2"],
      [username |-> "", email |-> "c@x.com", password |-> "pw3"],
      [username |-> "dave", password |-> "pw4"] }

AccountLogins ==
    { [username |-> "alice", password |-> "pw1"],
      [username |-> "alice", password |-> "pw2"],
      [username |-> "alice", password |-> ""],
      [password |-> "pw1"] }

NextAccounts ==
    \/ \E c \in AuthClients, body \in AccountSignups : Signup(c, body)
    \/ \E c \in AuthClients, body \in AccountLogins : Login(c, body)
    \/ \E c \in AuthClients : Logout(c)
    \/ \E c \in AuthClients : GetCurrentUser(c)
    \/ Tick

SpecAccounts == InitAuth /\ [][NextAccounts]_vars

(***************************************************************************)
(* C24.  No response of signup, login, logout or get-current-user, on a    *)
(* success path or an error path, contains a password: the body and the    *)
(* user summary in it have no password field, and no text in the body, the *)
(* validation issues included, is the password of a request.               *)
(***************************************************************************)
Plaintexts == {b.password : b \in AccountSignups \cup AccountLogins}
TextKeys == {"message", "username", "email", "firstName", "lastName"}

NoPasswordIn(b) ==
    /\ "password" \notin DOMAIN b
    /\ \A k \in DOMAIN b \cap TextKeys : b[k] \notin Plaintexts \ {""}

C24_NoPasswordInResponses ==
    resp.op \in {"signup", "login", "logout", "user"} =>
        /\ NoPasswordIn(resp.body)
        /\ "user" \in DOMAIN resp.body => NoPasswordIn(resp.body.user)
        /\ "errors" \in DOMAIN resp.body =>
               \A issue \in resp.body.errors :
                   /\ issue.path # <<>>
                   /\ "received" \in DOMAIN issue => issue.received \notin Plaintexts

\* the current user was served with her names, and not with her password
C24_Witness ==
    /\ Answered("user", 200)
    /\ resp.body.firstName = "Al"
    /\ getUser(resp.body.id).password = BcryptHash("pw1", 10)

(***************************************************************************)
(* C25.  Get, update and delete task answer 400 and call no storage method *)
(* whenever the id path parameter is not a numeric id, that is, not a      *)
(* string of decimal digits; a parameter such as '12abc', which only       *)
(* starts with digits, is refused and is not taken for task 12.            *)
(***************************************************************************)
IsNumericId(param) == Len(param) > 0 /\ \A i \in 1..Len(param) : IsDigit(param[i], 10)

PathParams ==
    IdParams \cup { <<"1", "a", "b", "c">>, <<"1", "2", "a", "b", "c">>, <<"1", ".", "5">>,
                    <<"a", "1">>, <<" ", "1">> }

InvalidId(op) == Response(op, 400, Message("Invalid task ID"), <<>>)

C25_NonNumericIdRefused ==
    \A c \in Clients, p \in PathParams :
        Authenticated(c) /\ ~IsNumericId(p) =>
            /\ GetTaskResponse(c, p) = InvalidId("get")
            /\ \A b \in ValidPatches :
                   PatchTaskOutcome(c, p, b) = [resp |-> InvalidId("patch"), tasks |-> tasks]
            /\ DeleteTaskOutcome(c, p) = [resp |-> InvalidId("delete"), tasks |-> tasks]

(***************************************************************************)
(* The storage object under calls that overlap: one owner, one task to     *)
(* create, updates of disjoint fields and a delete, at most MaxOverlap     *)
(* calls suspended at a time.                                              *)
(***************************************************************************)
MaxOverlap == 2

OverlapCreates == { [title |-> "Pay rent", priority |-> "high", completed |-> FALSE, userId |-> 1] }
OverlapUpdates == { [title |-> "Renamed"], [completed |-> TRUE] }
OverlapIds == 1..MaxTasks

NextOverlap ==
    \/ \E taskData \in OverlapCreates : CallCreateTask(taskData)
    \/ \E id \in OverlapIds, updates \in OverlapUpdates :
           Len(suspended) < MaxOverlap /\ CallBegin("updateTask", id, 1, updates)
    \/ \E id \in OverlapIds :
           Len(suspended) < MaxOverlap /\ CallBegin("deleteTask", id, 1, NoBody)
    \/ UpdateTaskResume
    \/ DeleteTaskResume
    \/ Tick

SpecOverlap == Init /\ [][NextOverlap]_vars

KeysAreIds ==
    /\ \A i, j \in 1..Len(tasks) : tasks[i].key = tasks[j].key => i = j
    /\ \A i \in 1..Len(tasks) : tasks[i].val.id = tasks[i].key /\ tasks[i].key < nextTaskId

C28_TaskIdsNeverReused ==
    /\ []KeysAreIds
    /\ [][/\ nextTaskId' >= nextTaskId
          /\ \A id \in 1..nextTaskId :
                 MapHas(tasks', id) /\ ~MapHas(tasks, id) =>
                     id = nextTaskId /\ nextTaskId' = nextTaskId + 1]_vars

\* a task has been created after a task with a smaller id was deleted
C28_Witness ==
    /\ resp.op = "create" /\ resp.status = 201
    /\ \E id \in TaskIds : ~MapHas(tasks, id) /\ id < resp.body.id
    /\ MapHas(tasks, resp.body.id)

(***************************************************************************)
(* C29.  Every user id assigned by createUser is a positive integer, so    *)
(* requireAuth never rejects a logged-in user: for every client whose      *)
(* cookie names a session on which login succeeded and which has not been  *)
(* destroyed or expired, the truthiness test on session.userId passes; the *)
(* user id a login answers with is positive, and after a successful login  *)
(* some client holds a session with that user id and passes the test.      *)
(***************************************************************************)
LoggedIn(c) == HasSession(c) /\ "userId" \in DOMAIN sessionStore[cookie[c]].sess

C29_LoggedInPassesRequireAuth ==
    /\ [](\A i \in 1..Len(users) : users[i].val.id > 0)
    /\ [](\A c \in AuthClients : LoggedIn(c) => Authenticated(c))
    /\ [][resp'.op = "login" /\ resp'.status = 200 /\ now' = now =>
              /\ resp'.body.user.id > 0
              /\ \E c \in AuthClients :
                     LoggedIn(c)' /\ Authenticated(c)' /\ SessionUserId(c)' = resp'.body.user.id
        ]_vars

\* a logged-in client has passed requireAuth on a session that is four days old
C29_Witness ==
    /\ resp.op = "list" /\ resp.status = 200
    /\ now > 0
    /\ \E c \in AuthClients : LoggedIn(c) /\ Authenticated(c)

(***************************************************************************)
(* DatabaseStorage: the task methods over the tasks table.  The table is a *)
(* sequence of rows and the next value of the serial id column.  A column  *)
(* absent from an insert takes its default (priority 'medium', completed   *)
(* false, createdAt and updatedAt now(), NULL otherwise); every statement  *)
(* selects its rows with id = $1 and user_id = $2.                         *)
(***************************************************************************)
ColumnOr(values, k, dflt) == IF k \in DOMAIN values THEN values[k] ELSE dflt

\* .where(and(eq(tasks.id, id), eq(tasks.userId, userId)))
dbMatches(row, id, userId) == row.id = id /\ row.userId = userId

\* .orderBy(tasks.createdAt): ascending; rows of equal createdAt in table order
OrderByCreatedAt(s) ==
    LET Before(i, j) == \/ s[i].createdAt < s[j].createdAt
                        \/ s[i].createdAt = s[j].createdAt /\ i < j
        Rank(i) == 1 + Cardinality({j \in 1..Len(s) : Before(j, i)})
    IN  [p \in 1..Len(s) |-> s[CHOOSE i \in 1..Len(s) : Rank(i) = p]]

dbGetTasksOf(d, userId) ==
    OrderByCreatedAt(SelectSeq(d.rows, LAMBDA row : row.userId = userId))

dbGetTaskOf(d, id, userId) ==
    LET found == SelectSeq(d.rows, LAMBDA row : dbMatches(row, id, userId))
    IN  IF found = <<>> THEN Undefined ELSE found[1]

dbCreateTaskOf(d, taskData) ==
    LET row == [id          |-> d.serial,
                title       |-> taskData.title,
                description |-> ColumnOr(taskData, "description", Null),
                priority    |-> ColumnOr(taskData, "priority", "medium"),
                dueDate     |-> ColumnOr(taskData, "dueDate", Null),
                completed   |-> ColumnOr(taskData, "completed", FALSE),
                userId      |-> taskData.userId,
                createdAt   |-> now,
                updatedAt   |-> now]
    IN  [result |-> row, db |-> [rows |-> Append(d.rows, row), serial |-> d.serial + 1]]

dbUpdateTaskOf(d, id, userId, updates) ==
    LET Set(row)  == Spread(row, Spread(updates, [updatedAt |-> now]))
        hits      == {i \in 1..Len(d.rows) : dbMatches(d.rows[i], id, userId)}
        returning == [i \in 1..Len(d.rows) |->
                         IF i \in hits THEN Set(d.rows[i]) ELSE d.rows[i]]
    IN  [result |-> FirstAt(returning, hits),
         db     |-> [d EXCEPT !.rows = returning]]

\* the delete without the owner in its where clause
dbDeleteTaskOf_AnyOwner(d, id, userId) ==
    LET kept == SelectSeq(d.rows, LAMBDA row : row.id # id)
    IN  [result |-> Len(d.rows) - Len(kept) > 0, db |-> [d EXCEPT !.rows = kept]]

dbDeleteTaskOf(d, id, userId) ==
    LET kept == SelectSeq(d.rows, LAMBDA row : ~dbMatches(row, id, userId))
    IN  [result |-> Len(d.rows) - Len(kept) > 0, db |-> [d EXCEPT !.rows = kept]]

dbGetTaskStatsOf(d, userId, clock) ==
    LET userTasks == SelectSeq(d.rows, LAMBDA row : row.userId = userId)
    IN  [total     |-> Len(userTasks),
         completed |-> Len(SelectSeq(userTasks, LAMBDA t : t.completed)),
         pending   |-> Len(SelectSeq(userTasks, LAMBDA t : ~t.completed)),
         overdue   |-> Len(SelectSeq(userTasks, LAMBDA t :
                          ~t.completed /\ TruthyStr(t.dueDate) /\ DateBefore(t.dueDate, clock)))]

(***************************************************************************)
(* The two storages driven by the same calls, one call at a time, each     *)
(* settled before the next; what the two returned is kept side by side.    *)
(***************************************************************************)
BothCreateTask(taskData) ==
    /\ nextTaskId <= MaxTasks
    /\ tasks' = MapSet(tasks, nextTaskId, NewTask(taskData))
    /\ nextTaskId' = nextTaskId + 1
    /\ db' = dbCreateTaskOf(db, taskData).db
    /\ resp' = Returned("createTask", [mem |-> NewTask(taskData),
                                       db  |-> dbCreateTaskOf(db, taskData).result])
    /\ UNCHANGED <<users, nextUserId, sessionStore, nextSid, cookie, now, inflight, suspended>>

BothUpdateTask(id, userId, updates) ==
    /\ tasks' = updateTask(id, userId, updates).map
    /\ db' = dbUpdateTaskOf(db, id, userId, updates).db
    /\ resp' = Returned("updateTask", [mem |-> updateTask(id, userId, updates).result,
                                       db  |-> dbUpdateTaskOf(db, id, userId, updates).result])
    /\ UNCHANGED <<users, nextUserId, nextTaskId, sessionStore, nextSid, cookie, now, inflight,
                   suspended>>

BothDeleteTask(id, userId) ==
    /\ tasks' = deleteTask(id, userId).map
    /\ db' = dbDeleteTaskOf(db, id, userId).db
    /\ resp' = Returned("deleteTask", [mem |-> Boolean(deleteTask(id, userId).result),
                                       db  |-> Boolean(dbDeleteTaskOf(db, id, userId).result)])
    /\ UNCHANGED <<users, nextUserId, nextTaskId, sessionStore, nextSid, cookie, now, inflight,
                   suspended>>

\* arguments as the routes pass them: a parsed body, with the session's user on create
StoreUsers == {1, 2}
StoreCreates ==
    { Spread(insertTaskSchemaParse(body), [userId |-> u]) :
        body \in { [title |-> "Pay rent", priority |-> "high", dueDate |-> D0],
                   [title |-> "Call", completed |-> TRUE, description |-> ""],
                   [title |-> "Plan", dueDate |-> ""] },
        u \in StoreUsers }
StoreUpdates ==
    { updateTaskSchemaParse(body) :
        body \in { [completed |-> TRUE], [dueDate |-> D0, id |-> 9], [title |-> "Renamed"] } }
StoreIds == 1..(MaxTasks + 1)

NextStores ==
    \/ \E taskData \in StoreCreates : BothCreateTask(taskData)
    \/ \E id \in StoreIds, u \in StoreUsers, updates \in StoreUpdates :
           BothUpdateTask(id, u, updates)
    \/ \E id \in StoreIds, u \in StoreUsers : BothDeleteTask(id, u)
    \/ Tick

SpecStores == Init /\ [][NextStores]_vars

(***************************************************************************)
(* C30.  MemStorage and DatabaseStorage are interchangeable for ownership  *)
(* and statistics: driven by the same sequence of createTask, updateTask   *)
(* and deleteTask calls, after every call they agree, for every user, on   *)
(* the set of task ids in getTasks, on whether getTask returns a task or   *)
(* none for every id, and on the four numbers of getTaskStats; updateTask  *)
(* returned a task in both or in neither, and deleteTask returned the same *)
(* boolean.                                                                *)
(***************************************************************************)
IdsOf(s) == {s[i].id : i \in 1..Len(s)}

C30_StoragesAgree ==
    /\ \A u \in StoreUsers :
          /\ IdsOf(getTasks(u)) = IdsOf(dbGetTasksOf(db, u))
          /\ \A id \in StoreIds :
                 (getTask(id, u) = Undefined) <=> (dbGetTaskOf(db, id, u) = Undefined)
          /\ getTaskStats(u) = dbGetTaskStatsOf(db, u, now)
    /\ resp.op = "updateTask" => ((resp.body.mem = Undefined) <=> (resp.body.db = Undefined))
    /\ resp.op = "deleteTask" => resp.body.mem = resp.body.db

\* both storages have deleted a task, and a task that is overdue remains
C30_Witness ==
    /\ resp.op = "deleteTask" /\ resp.body.mem = Boolean(TRUE) /\ resp.body.db = Boolean(TRUE)
    /\ \E u \in StoreUsers : getTaskStats(u).overdue > 0 /\ dbGetTaskStatsOf(db, u, now).overdue > 0
====
